---- MODULE Spec2Model ----
(***************************************************************************)
(* datalair: a filesystem store of derived datasets.                       *)
(*                                                                         *)
(* The model covers the class Lair of src/datalair/_lair.py (status,       *)
(* dataset lifecycle, the derive commit protocol, safe_derive and          *)
(* get_dataset_filepaths) and the function variant Store of                *)
(* src/datalair/store.py (save with dependency resolution).                *)
(*                                                                         *)
(* The filesystem below the root path is the state.  A dataset's own       *)
(* derive logic is arbitrary user code, so it is a nondeterministic        *)
(* sequence of steps interleaved with re-entrant calls into the Lair; the  *)
(* call stack of Lair.derive activations is part of the state.             *)
(***************************************************************************)
EXTENDS Integers, Sequences, FiniteSets, TLC

\* Deepest nesting of Lair.derive activations (a unit deriving a unit ...).
MaxDepth == 2
\* Number of dataset units.
MaxUnits == 2
\* Most items in the DatasetDict a dataset function returns.
MaxKeys == 1
\* Number of threads that call derive for the same unit at the same time.
MaxThreads == 2

\* ---------------------------------------------------------------- names

\* A file name is a pathlib name: stem + suffix.
File(stem, suffix) == [stem |-> stem, suffix |-> suffix]

MetadataFile == File("__metadata__", ".json")
DatasetPkl == File("__dataset__", ".pkl")
ConfigName == File("__config__", ".json")

\* The names get_dataset_filepaths filters out (_lair.py:523).
ReservedNames == {MetadataFile, DatasetPkl}

\* The output file a unit's logic writes.
DataNames == {File("x", ".dat")}

\* What a unit's logic may write into its directory: its outputs, and also
\* a file carrying a reserved name.
WriteNames == DataNames \cup {MetadataFile}

\* A unit's logic that writes a file carrying the name of the store's marker
\* file into its own directory.
MarkerWriteNames == DataNames \cup {ConfigName}

\* Dataset units (Dataset._name is the directory key, _dataset.py:81-84).
UnitTable == <<"A", "B", "C">>
Units == {UnitTable[i] : i \in 1..MaxUnits}

\* Dataset functions of the function variant, keyed by uuid, with the
\* default values of their parameters in declaration order.
\* fC's second parameter has a default that is no dataset function; fD's
\* parameter has fD itself as its default.
Funcs == {"fA", "fB", "fC", "fD"}
Params == [fA |-> <<>>, fB |-> <<"fA">>, fC |-> <<"fA", "constant">>,
           fD |-> <<"fD">>]

TmpDataset == "__tmp_dataset__"

\* Every directory key that may appear directly under the root.
Keys == {UnitTable[i] : i \in DOMAIN UnitTable} \cup Funcs \cup {TmpDataset}

\* The keys a dataset function's DatasetDict may have: any string is a key.
OutKeys == {"", "k1"}

\* ----------------------------------------------------------- filesystem

VARIABLES
  fs,      \* the root path: [root, config, entries]
  stack,   \* the activations of Lair.derive, outermost first
  last,    \* the operation performed by the latest step and its outcome
  tampered, \* a unit's logic removed its own directory or the store's
            \* marker file since the program's current call began
  threads   \* the derive calls of concurrent threads, each with its position

vars == <<fs, stack, last, tampered, threads>>

Absent == [kind |-> "absent", files |-> {}]
Dir(files) == [kind |-> "dir", files |-> files]

RegularFile == [kind |-> "file", files |-> {}]

NoFs == [root |-> "absent", config |-> FALSE, entries |-> [k \in Keys |-> Absent]]

\* The root path is a regular file.
FileFs == [NoFs EXCEPT !.root = "file"]

\* ----------------------------------------------------------- exceptions

None == [kind |-> "none", site |-> "none", lvl |-> 0]

\* An exception object: its class, the statement that raised it and the depth
\* of the call that raised it (two exceptions of one class raised at different
\* depths are different objects).
Exc(kind, site, lvl) == [kind |-> kind, site |-> site, lvl |-> lvl]

Ret(f, e) == [fs |-> f, exc |-> e]

\* ------------------------------------------------------------ Lair: pure

\* Mutant: status tells a root that is no directory, and a directory
\* without the marker file, apart.
status_five_way(f) ==
  IF f.root = "absent" THEN "NOT_EXIST"
  ELSE IF f.root = "file" THEN "NOT_DIRECTORY"
  ELSE IF ~f.config THEN "CONFIG_MISSING"
  ELSE "OK"

\* Lair.status (_lair.py:199-203), Store.status (store.py:181-186).
status(f) ==
  IF f.root = "absent" THEN "NOT_EXIST"
  ELSE IF ~f.config THEN "MALFORMED"
  ELSE "OK"

\* Mutant: whatever is at the unit's path counts as the dataset.
dataset_exists_not_is_dir(f, u) == f.entries[u].kind # "absent"

dataset_exists(f, u) == f.entries[u].kind = "dir"

\* Mutant: create accepts an existing directory (makedirs exist_ok=True).
create_exist_ok(f) ==
  IF f.root = "file"
  THEN Ret(f, Exc("FileExistsError", "makedirs", 0))
  ELSE Ret([f EXCEPT !.root = "dir", !.config = TRUE], None)

\* Lair.create (_lair.py:271-272): os.makedirs(exist_ok=False), then the
\* marker file.
create(f) ==
  IF f.root # "absent"
  THEN Ret(f, Exc("FileExistsError", "makedirs", 0))
  ELSE Ret([f EXCEPT !.root = "dir", !.config = TRUE], None)

\* Mutant: create_if_not_exist creates whatever the status is.
create_if_not_exist_unguarded(f) == create(f)

\* Lair.create_if_not_exist (_lair.py:288-289).
create_if_not_exist(f) ==
  IF status(f) = "NOT_EXIST" THEN create(f) ELSE Ret(f, None)

\* os.listdir of the root path: the marker file and the entries below the root.
listdir(f) ==
  (IF f.config THEN {"__config__.json"} ELSE {})
    \cup {k \in Keys : f.entries[k].kind # "absent"}

\* shutil.rmtree of the root path: it raises when nothing is there, and when
\* the path is no directory.
rmtree_root(f) ==
  IF f.root = "absent" THEN Ret(f, Exc("FileNotFoundError", "rmtree", 0))
  ELSE IF f.root = "file" THEN Ret(f, Exc("NotADirectoryError", "rmtree", 0))
  ELSE Ret(NoFs, None)

\* Lair.delete (_lair.py:311-320).
delete(f, force) ==
  IF ~force /\ status(f) = "OK" /\ listdir(f) # {}
  THEN Ret(f, Exc("IOError", "has elements", 0))
  ELSE IF ~force /\ status(f) = "NOT_EXIST"
  THEN Ret(f, Exc("IOError", "does not exist", 0))
  ELSE IF ~force /\ status(f) # "OK"
  THEN Ret(f, Exc("IOError", "not a store", 0))
  ELSE rmtree_root(f)

\* Store.delete (store.py:203-213): as Lair.delete, but the OK case calls
\* os.listdr, which the module os does not have.
store_delete(f, force) ==
  IF ~force /\ status(f) = "OK"
  THEN Ret(f, Exc("AttributeError", "os.listdr", 0))
  ELSE IF ~force /\ status(f) = "NOT_EXIST"
  THEN Ret(f, Exc("IOError", "does not exist", 0))
  ELSE IF ~force
  THEN Ret(f, Exc("IOError", "not a store", 0))
  ELSE rmtree_root(f)

\* shutil.rmtree of the unit's directory.
\* Mutant: the store's marker file goes with it.
rmtree_with_marker(f, u) ==
  [f EXCEPT !.entries[u] = Absent, !.config = FALSE]

rmtree(f, u) == [f EXCEPT !.entries[u] = Absent]

\* Mutant: the status is not asserted.
assert_ok_satus_skipped(f, lvl) == Ret(f, None)

\* Lair.assert_ok_satus (_lair.py:218-222), Store.assert_ok_satus
\* (store.py:188-191).
assert_ok_satus(f, lvl) ==
  Ret(f, IF status(f) = "OK" THEN None
         ELSE Exc("AssertionError", "assert_ok_satus", lvl))

\* Mutant: the 'missing' assertion only asserts the store's status.
assert_dataset_missing_unchecked(f, u, lvl) == assert_ok_satus(f, lvl)

assert_dataset_missing(f, u, lvl) ==
  LET a == assert_ok_satus(f, lvl)
  IN IF a.exc # None THEN a
     ELSE Ret(f, IF ~dataset_exists(f, u) THEN None
                 ELSE Exc("AssertionError", "assert_dataset_missing", lvl))

assert_dataset_exists(f, u, lvl) ==
  LET a == assert_ok_satus(f, lvl)
  IN IF a.exc # None THEN a
     ELSE Ret(f, IF dataset_exists(f, u) THEN None
                 ELSE Exc("AssertionError", "assert_dataset_exists", lvl))

\* Lair.delete_from_store (_lair.py:379-380): shutil.rmtree of the unit's path.
\* Mutant: every dataset directory of the store is removed with the unit's.
delete_from_store_all(f, u, lvl) ==
  LET a == assert_ok_satus(f, lvl)
  IN IF a.exc # None THEN a
     ELSE IF f.entries[u].kind = "absent"
     THEN Ret(f, Exc("FileNotFoundError", "rmtree", lvl))
     ELSE IF f.entries[u].kind = "file"
     THEN Ret(f, Exc("NotADirectoryError", "rmtree", lvl))
     ELSE Ret([f EXCEPT !.entries =
                 [k \in Keys |-> IF f.entries[k].kind = "dir" THEN Absent
                                 ELSE f.entries[k]]], None)

delete_from_store(f, u, lvl) ==
  LET a == assert_ok_satus(f, lvl)
  IN IF a.exc # None THEN a
     ELSE IF f.entries[u].kind = "absent"
     THEN Ret(f, Exc("FileNotFoundError", "rmtree", lvl))
     ELSE IF f.entries[u].kind = "file"
     THEN Ret(f, Exc("NotADirectoryError", "rmtree", lvl))
     ELSE Ret(rmtree(f, u), None)

\* Lair.delete_all_empty_datasets_from_store (_lair.py:558-569): every
\* directory below the root whose entry names are all among the two reserved
\* names is removed, unless dry_run.
\* Mutant: only a directory holding exactly the two reserved files counts
\* as empty.
IsEmptyDataset_exact(f, k) ==
  f.entries[k].kind = "dir" /\ f.entries[k].files = {DatasetPkl, MetadataFile}

IsEmptyDataset(f, k) ==
  f.entries[k].kind = "dir" /\ f.entries[k].files \ {DatasetPkl, MetadataFile} = {}

\* Mutant: the sweep reports and removes nothing.
delete_all_empty_datasets_from_store_dry(f, dry_run) ==
  LET a == assert_ok_satus(f, 0)
  IN IF a.exc # None THEN a ELSE Ret(f, None)

delete_all_empty_datasets_from_store(f, dry_run) ==
  LET a == assert_ok_satus(f, 0)
  IN IF a.exc # None THEN a
     ELSE IF dry_run THEN Ret(f, None)
     ELSE Ret([f EXCEPT !.entries =
                 [k \in Keys |-> IF IsEmptyDataset(f, k) THEN Absent
                                 ELSE f.entries[k]]], None)

\* Lair.make_dataset_dir (_lair.py:446-450): mkdir(parents=False,
\* exist_ok=False) of the unit's path.
\* Mutant: mkdir(exist_ok=True).
mkdir_exist_ok(f, u, lvl) ==
  IF f.entries[u].kind = "file"
  THEN Ret(f, Exc("FileExistsError", "mkdir", lvl))
  ELSE IF f.entries[u].kind = "dir" THEN Ret(f, None)
  ELSE Ret([f EXCEPT !.entries[u] = Dir({})], None)

mkdir(f, u, lvl) ==
  IF f.entries[u].kind # "absent"
  THEN Ret(f, Exc("FileExistsError", "mkdir", lvl))
  ELSE Ret([f EXCEPT !.entries[u] = Dir({})], None)

make_dataset_dir(f, u, lvl) ==
  LET a == assert_dataset_missing(f, u, lvl)
  IN IF a.exc # None THEN a ELSE mkdir(f, u, lvl)

\* Writing a file into the unit's directory (open(..., "w")).
write_file(f, u, n) == [f EXCEPT !.entries[u].files = @ \cup {n}]

\* fail = "metadata": the snapshot cannot be taken or written (an I/O error,
\* a package without metadata); nothing is written.
save_dataset_metadata(f, u, lvl, fail) ==
  IF fail = "metadata"
  THEN Ret(f, Exc("OSError", "save_dataset_metadata", lvl))
  ELSE Ret(write_file(f, u, MetadataFile), None)

\* Mutant: the serialized unit is written under another name than the one
\* get_dataset_filepaths filters out.
save_dataset_implementation_misnamed(f, u, lvl, fail) ==
  IF fail = "implementation"
  THEN Ret(write_file(f, u, File("__dataset__", ".pickle")),
           Exc("PicklingError", "save_dataset_implementation", lvl))
  ELSE Ret(write_file(f, u, File("__dataset__", ".pickle")), None)

\* fail = "implementation": dill cannot serialize the unit; the file has
\* been opened for writing already, so it exists.
save_dataset_implementation(f, u, lvl, fail) ==
  IF fail = "implementation"
  THEN Ret(write_file(f, u, DatasetPkl),
           Exc("PicklingError", "save_dataset_implementation", lvl))
  ELSE Ret(write_file(f, u, DatasetPkl), None)

\* Lair.derive up to the try statement (_lair.py:471-477).
derive_prepare(f, u, lvl, fail) ==
  LET s1 == assert_ok_satus(f, lvl)
      s3 == assert_dataset_missing(f, u, lvl)
      s4 == make_dataset_dir(f, u, lvl)
      s5 == save_dataset_metadata(s4.fs, u, lvl, fail)
      s6 == save_dataset_implementation(s5.fs, u, lvl, fail)
      s7 == assert_dataset_exists(s6.fs, u, lvl)
  IN IF s1.exc # None THEN s1
     ELSE IF s3.exc # None THEN s3
     ELSE IF s4.exc # None THEN s4
     ELSE IF s5.exc # None THEN s5
     ELSE IF s6.exc # None THEN s6
     ELSE s7

\* The classes of BaseException that are no subclass of Exception: the clause
\* "except Exception" (_lair.py:480) does not handle them.
Interruptions == {"KeyboardInterrupt", "SystemExit"}

\* Mutant: the exception is raised again without the rollback.
derive_except_no_rollback(f, u, lvl, e) == Ret(f, e)

\* The except clause of Lair.derive (_lair.py:480-482): e left the unit's
\* logic; when e is an Exception the rollback runs and e is raised again,
\* unless the rollback itself raises; any other e passes the clause by.
derive_except(f, u, lvl, e) ==
  LET d == delete_from_store(f, u, lvl)
  IN IF e.kind \in Interruptions THEN Ret(f, e)
     ELSE IF d.exc # None THEN d ELSE Ret(d.fs, e)

\* Mutant: safe_derive derives even when the dataset exists.
safe_derive_prepare_always(f, u, lvl, overwrite, fail) ==
  LET s1 == assert_ok_satus(f, lvl)
      p == derive_prepare(f, u, lvl, fail)
  IN IF s1.exc # None THEN [fs |-> f, exc |-> s1.exc, run |-> FALSE]
     ELSE [fs |-> p.fs, exc |-> p.exc, run |-> p.exc = None]

\* Mutant: overwrite derives into the existing directory without removing it.
safe_derive_prepare_in_place(f, u, lvl, overwrite, fail) ==
  LET s1 == assert_ok_satus(f, lvl)
      p == derive_prepare(f, u, lvl, fail)
  IN IF s1.exc # None THEN [fs |-> f, exc |-> s1.exc, run |-> FALSE]
     ELSE IF dataset_exists(f, u) /\ ~overwrite
     THEN [fs |-> f, exc |-> None, run |-> FALSE]
     ELSE IF dataset_exists(f, u) /\ overwrite
     THEN [fs |-> write_file(write_file(f, u, MetadataFile), u, DatasetPkl),
           exc |-> None, run |-> TRUE]
     ELSE [fs |-> p.fs, exc |-> p.exc, run |-> p.exc = None]

\* Lair.safe_derive up to the unit's logic (_lair.py:495-503).
\* run: whether Lair.derive reached the unit's logic.
safe_derive_prepare(f, u, lvl, overwrite, fail) ==
  LET s1 == assert_ok_satus(f, lvl)
      d == delete_from_store(f, u, lvl)
      p == derive_prepare(f, u, lvl, fail)
      q == derive_prepare(d.fs, u, lvl, fail)
  IN IF s1.exc # None THEN [fs |-> f, exc |-> s1.exc, run |-> FALSE]
     ELSE IF dataset_exists(f, u) /\ ~overwrite
     THEN [fs |-> f, exc |-> None, run |-> FALSE]
     ELSE IF dataset_exists(f, u) /\ overwrite
     THEN IF d.exc # None THEN [fs |-> d.fs, exc |-> d.exc, run |-> FALSE]
          ELSE [fs |-> q.fs, exc |-> q.exc, run |-> q.exc = None]
     ELSE [fs |-> p.fs, exc |-> p.exc, run |-> p.exc = None]

\* The path of file n of unit u, below the root.
PathOf(u, n) == <<u, n>>

\* Mutant: get_dataset_filepaths asserts that the dataset is missing.
get_dataset_filepaths_wrong_assert(f, u, lvl) ==
  LET a == assert_dataset_missing(f, u, lvl)
  IN IF a.exc # None THEN [exc |-> a.exc, map |-> <<>>]
     ELSE [exc |-> None,
           map |-> [n \in f.entries[u].files \ ReservedNames |-> PathOf(u, n)]]

\* Mutant: get_dataset_filepaths returns every file of the directory.
get_dataset_filepaths_unfiltered(f, u, lvl) ==
  LET a == assert_dataset_exists(f, u, lvl)
  IN IF a.exc # None THEN [exc |-> a.exc, map |-> <<>>]
     ELSE [exc |-> None,
           map |-> [n \in f.entries[u].files |-> PathOf(u, n)]]

\* Mutant: get_dataset_filepaths also filters the marker file's name.
get_dataset_filepaths_three_reserved(f, u, lvl) ==
  LET a == assert_dataset_exists(f, u, lvl)
  IN IF a.exc # None THEN [exc |-> a.exc, map |-> <<>>]
     ELSE [exc |-> None,
           map |-> [n \in f.entries[u].files \ (ReservedNames \cup {ConfigName})
                      |-> PathOf(u, n)]]

\* Lair.get_dataset_filepaths (_lair.py:518-524).
get_dataset_filepaths(f, u, lvl) ==
  LET a == assert_dataset_exists(f, u, lvl)
  IN IF a.exc # None THEN [exc |-> a.exc, map |-> <<>>]
     ELSE [exc |-> None,
           map |-> [n \in f.entries[u].files \ ReservedNames |-> PathOf(u, n)]]

\* ------------------------------------------------------------- UUID

\* The number of hexadecimal digits of a UUID (_uuid.py:44).
UUIDLen == 16
\* How many characters longer, and shorter, than a UUID the strings tried
\* are.
MaxExtra == 1
MaxShort == 1

\* A Python value: its type and, for a string, its characters.
Value(type, chars) == [type |-> type, chars |-> chars]
NoValue == Value("none", <<>>)

\* The character class [0-9a-fA-F].
HexDigits ==
  {"0", "1", "2", "3", "4", "5", "6", "7", "8", "9",
   "a", "b", "c", "d", "e", "f", "A", "B", "C", "D", "E", "F"}

\* The characters tried: the ends of the three ranges, characters next to
\* them in ASCII, a blank, a hyphen and the line feed (written LF).
LF == "LF"
FillChars == {"0", "9", "a", "f", "A", "F"}
OddChars == {"/", ":", "@", "G", "_", "g", " ", "-", LF}

\* The strings tried: n times the character c, with the odd character b in
\* place p (p = 0: in no place). The lengths are those around UUIDLen and
\* 0, the places the first, the last of a UUID and the last of the string.
Build(n, c, p, b) == [i \in 1..n |-> IF i = p THEN b ELSE c]
Lengths == {0} \cup ((UUIDLen - MaxShort)..(UUIDLen + MaxExtra))
Places(n) == {0, 1, UUIDLen, n}
Strings ==
  {Build(n[1], c, n[2], b) :
     n \in {x \in Lengths \X (0..(UUIDLen + MaxExtra)) : x[2] \in Places(x[1])},
     c \in FillChars, b \in OddChars}
Values ==
  {Value("str", cs) : cs \in Strings}
    \cup {Value(t, <<>>) : t \in {"int", "bytes", "NoneType"}}

\* re.compile(r"^[0-9a-fA-F]{16}$").match(value): sixteen characters of the
\* class from the start, then '$', which matches at the end of the string
\* and also just before a line terminator that ends the string.
pattern_match(cs) ==
  /\ Len(cs) >= UUIDLen
  /\ \A i \in 1..UUIDLen : cs[i] \in HexDigits
  /\ \/ Len(cs) = UUIDLen
     \/ Len(cs) = UUIDLen + 1 /\ cs[UUIDLen + 1] = LF

\* UUID.__new__ (_uuid.py:46-51).
UUID(value) ==
  IF value.type # "str"
  THEN [exc |-> Exc("TypeError", "UUID", 0), made |-> NoValue]
  ELSE IF ~pattern_match(value.chars)
  THEN [exc |-> Exc("ValueError", "UUID", 0), made |-> NoValue]
  ELSE [exc |-> None, made |-> value]

\* ---------------------------------------------------------- Dataset

\* An optional value is <<>> (None, no attribute) or <<v>>.
\* The classes the program derives from Dataset: a class name and, in the
\* class body, a uuid or none. The namespaces it constructs them with.
ClassNames == {"DatasetOne", "DatasetTwo", "A"}
UUIDStrings == {"0123456789abcdef", "0123456789ABCDEF"}
\* "1-A" is a uuid in a class body that is a plain str: Dataset.__init__
\* takes any uuid attribute as the dataset name (_dataset.py:77-78),
\* validated or not.
ClassUUIDs == {<<>>} \cup {<<v>> : v \in UUIDStrings \cup {"1-A"}}
Namespaces == {<<>>, <<"ns">>, <<"lab">>, <<"lab-1">>}

\* The root path of the Lair.
RootPath == <<"root">>

\* An object of class cls before __init__ ran: attrs are the names hasattr
\* finds, uuid the value of the attribute uuid when there is one.
NewObject(cls, uuid) ==
  [cls |-> cls,
   attrs |-> IF uuid = <<>> THEN {} ELSE {"uuid"},
   uuid |-> IF uuid = <<>> THEN "" ELSE uuid[1],
   dataset_name |-> "", namespace |-> <<>>, name |-> ""]

NoObject == NewObject("", <<>>)

\* Dataset.__init__ (_dataset.py:60-84); dataset_name, namespace and name
\* are the attributes _dataset_name, _namespace and _name.
Dataset(self, namespace) ==
  IF "_self" \in self.attrs THEN self
  ELSE LET dn == IF "uuid" \in self.attrs THEN self.uuid ELSE self.cls
       IN [self EXCEPT
             !.attrs = @ \cup {"_dataset_name", "_namespace", "_name"},
             !.dataset_name = dn,
             !.namespace = namespace,
             !.name = IF namespace = <<>> THEN dn
                      ELSE namespace[1] \o "-" \o dn]

\* Lair.get_path(dataset) (_lair.py:113-118) for a Dataset object:
\* self._path.joinpath(str(dataset._name)).
\* Mutant: the name is worked out anew from the object's attributes.
get_path_by_uuid(dataset) ==
  [exc |-> None,
   path |-> Append(RootPath, Dataset(dataset, dataset.namespace).name)]

get_path(dataset) ==
  IF "_name" \notin dataset.attrs
  THEN [exc |-> Exc("AttributeError", "_name", 0), path |-> <<>>]
  ELSE [exc |-> None, path |-> Append(RootPath, dataset.name)]

\* ------------------------------------------------------- call stack

\* An activation of Lair.derive whose unit's logic is running:
\*   entry     the method the caller called ("derive" or "safe_derive")
\*   old       what was at the unit's path when the call was made
\*   wrote     the file names the unit's logic wrote
\*   pending   the exception a call made by the logic raised, not yet handled
\*   derived   the units the logic derived through the Lair
\*   listed    the derived units whose files the logic then got from
\*             get_dataset_filepaths
Frame(u, entry, overwrite, old) ==
  [unit |-> u, entry |-> entry, overwrite |-> overwrite, old |-> old,
   wrote |-> {}, pending |-> None, derived |-> {}, listed |-> {}]

NoBody == [raises |-> FALSE, items |-> <<>>]

NoPrev == [unit |-> "none", wrote |-> {}]

\* The record of a step. phase is "entered" (a call reached the unit's
\* logic), "returned" (a call came back to its caller) or "step" (the unit's
\* logic did something itself).
\*   ran       the call reached the unit's logic
\*   existed   dataset_exists(unit) when the call was made
\*   old       what was at the unit's path when the call was made
\*   logicExc  the exception that left the unit's logic
\*   wrote     the file names the unit's logic wrote
\*   derived   the units the unit's logic derived through the Lair
\*   listed    the derived units whose files it then got from
\*             get_dataset_filepaths
\*   prev      for get_dataset_filepaths(u): the unit and the files written
\*             when the step before was the successful return of derive(u);
\*             for Store.load(f): the function and the keys of its
\*             DatasetDict when the step before was a successful save(f)
\*   pre       the filesystem when a call that returned at once was made
\*   left      the filesystem when the unit's logic returned or raised
\*   thread    of concurrent calls, the thread that took the step (pre is
\*             then the filesystem before the step)
\*   body      for Store.save: what the dataset function did when called
\*   force     the argument of delete
\*   dry_run   the argument of delete_all_empty_datasets_from_store
\*   result    what status() returned
\*   loaded    the DatasetDict Store.load built: its keys, each with the
\*             path of the file it was set for
\*   mode      the argument of Store.load
\*   value     the argument of UUID(...)
\*   made      the UUID constructed
\*   args      the class, its uuid and the namespace a Dataset was
\*             constructed from
\*   obj       the Dataset constructed, as it is now
\*   path      what get_path(obj) returned
NoEvent ==
  [op |-> "none", phase |-> "none", unit |-> "none", lvl |-> 0, exc |-> None,
   ran |-> FALSE, overwrite |-> FALSE, existed |-> FALSE, old |-> Absent,
   logicExc |-> None, wrote |-> {}, derived |-> {}, listed |-> {},
   listing |-> <<>>, prev |-> NoPrev, pre |-> NoFs, left |-> NoFs,
   thread |-> 0, body |-> NoBody,
   force |-> FALSE, dry_run |-> FALSE, result |-> "none",
   loaded |-> {}, mode |-> "none", value |-> NoValue, made |-> NoValue,
   args |-> [cls |-> "", uuid |-> <<>>, namespace |-> <<>>],
   obj |-> NoObject, path |-> <<>>]

Top == stack[Len(stack)]
Idle == stack = <<>>
\* The unit's logic is running and free to act. Logic that has removed its
\* own directory or the marker file does nothing more than return or raise.
Unwinding == stack # <<>> /\ Top.pending = None
InLogic == Unwinding /\ ~tampered
Raising == stack # <<>> /\ Top.pending # None
CanCall == Idle \/ InLogic
CanEnter == Idle \/ (InLogic /\ Len(stack) < MaxDepth)

\* The caller's frame after its call came back with e; d holds the unit
\* when the call was a derive that succeeded.
Resume(stk, e, d) ==
  IF stk = <<>> THEN stk
  ELSE [stk EXCEPT ![Len(stk)].pending = e,
                   ![Len(stk)].derived = @ \cup d]

Fails == {"none", "metadata", "implementation"}

\* A call of derive or safe_derive: either it reaches the unit's logic and a
\* frame is pushed, or it returns to its caller at once.
Enter(op, u, overwrite, r) ==
  LET ev == [NoEvent EXCEPT !.op = op, !.unit = u, !.lvl = Len(stack),
                            !.overwrite = overwrite,
                            !.existed = dataset_exists(fs, u),
                            !.old = fs.entries[u]]
  IN /\ fs' = r.fs
     /\ IF r.run
        THEN /\ stack' = Append(stack, Frame(u, op, overwrite, fs.entries[u]))
             /\ last' = [ev EXCEPT !.phase = "entered", !.ran = TRUE]
        ELSE /\ stack' = Resume(stack, r.exc, {})
             /\ last' = [ev EXCEPT !.phase = "returned", !.exc = r.exc, !.pre = fs]
     /\ tampered' = (tampered /\ ~Idle)
     /\ UNCHANGED threads

\* The activation on top of the stack ends: e is the exception that left the
\* unit's logic (None when it returned).
\* Mutant: the rollback puts back what was at the unit's path before the call.
Leave_restores(e) ==
  LET t == Top
      lvl == Len(stack) - 1
      r == IF e = None THEN Ret(fs, None)
           ELSE Ret([fs EXCEPT !.entries[t.unit] = t.old], e)
  IN /\ fs' = r.fs
     /\ stack' = Resume(SubSeq(stack, 1, lvl), r.exc,
                        IF r.exc = None THEN {t.unit} ELSE {})
     /\ last' = [NoEvent EXCEPT !.op = t.entry, !.phase = "returned",
                                !.unit = t.unit, !.lvl = lvl, !.exc = r.exc,
                                !.ran = TRUE, !.overwrite = t.overwrite,
                                !.existed = t.old.kind = "dir", !.old = t.old,
                                !.logicExc = e, !.left = fs,
                                !.wrote = t.wrote, !.derived = t.derived,
                                !.listed = t.listed]
     /\ UNCHANGED tampered
     /\ UNCHANGED threads

Leave(e) ==
  LET t == Top
      lvl == Len(stack) - 1
      r == IF e = None THEN Ret(fs, None) ELSE derive_except(fs, t.unit, lvl, e)
  IN /\ fs' = r.fs
     /\ stack' = Resume(SubSeq(stack, 1, lvl), r.exc,
                        IF r.exc = None THEN {t.unit} ELSE {})
     /\ last' = [NoEvent EXCEPT !.op = t.entry, !.phase = "returned",
                                !.unit = t.unit, !.lvl = lvl, !.exc = r.exc,
                                !.ran = TRUE, !.overwrite = t.overwrite,
                                !.existed = t.old.kind = "dir", !.old = t.old,
                                !.logicExc = e, !.left = fs,
                                !.wrote = t.wrote, !.derived = t.derived,
                                !.listed = t.listed]
     /\ UNCHANGED tampered
     /\ UNCHANGED threads

LogicStep == [NoEvent EXCEPT !.op = "logic", !.phase = "step", !.unit = Top.unit,
                             !.lvl = Len(stack)]

\* ---------------------------------------------------- concurrent calls

\* Threads that share one Lair and call lair.derive for the same unit.
Threads == 1..MaxThreads
RaceUnit == UnitTable[1]

\* A thread's call of lair.derive(RaceUnit). pc names the statement of
\* Lair.derive (or of make_dataset_dir) the thread executes next.
\*   fail     how the preparation of its call fails
\*   exc      the exception derive raised (pc = "done"), or the one that left
\*            the unit's logic (pc = "except")
\*   early    it passed the 'missing' checks of derive and of
\*            make_dataset_dir when no thread had created the directory yet
\*   made     its mkdir created the directory
\*   removed  its rollback removed the directory
NotCalled ==
  [pc |-> "idle", fail |-> "none", exc |-> None,
   early |-> FALSE, made |-> FALSE, removed |-> FALSE]

NoThreads == [t \in Threads |-> NotCalled]

\* ------------------------------------------------------------- actions

Init ==
  /\ fs \in {NoFs, [NoFs EXCEPT !.root = "dir"]}
  /\ stack = <<>>
  /\ last = NoEvent
  /\ tampered = FALSE
  /\ threads = NoThreads

\* lair.create()
Create ==
  /\ Idle
  /\ LET r == create(fs)
     IN /\ fs' = r.fs
        /\ last' = [NoEvent EXCEPT !.op = "create", !.phase = "returned",
                                   !.exc = r.exc, !.pre = fs]
  /\ UNCHANGED <<stack, tampered>>
  /\ UNCHANGED threads

\* lair.status()
Status ==
  /\ Idle
  /\ last' = [NoEvent EXCEPT !.op = "status", !.phase = "returned",
                             !.result = status(fs), !.pre = fs]
  /\ UNCHANGED <<fs, stack, tampered>>
  /\ UNCHANGED threads

\* UUID(value)
NewUUID(value) ==
  /\ Idle
  /\ LET r == UUID(value)
     IN last' = [NoEvent EXCEPT !.op = "UUID", !.phase = "returned",
                                !.exc = r.exc, !.value = value,
                                !.made = r.made]
  /\ UNCHANGED <<fs, stack, tampered>>
  /\ UNCHANGED threads

\* cls(namespace): the program constructs a unit.
NewDataset(cls, uuid, namespace) ==
  /\ Idle
  /\ last' = [NoEvent EXCEPT
                !.op = "Dataset", !.phase = "returned",
                !.args = [cls |-> cls, uuid |-> uuid, namespace |-> namespace],
                !.obj = Dataset(NewObject(cls, uuid), namespace)]
  /\ UNCHANGED <<fs, stack, tampered>>
  /\ UNCHANGED threads

\* obj.uuid = value: the program changes the uuid of the unit it constructed.
SetUUID(value) ==
  /\ Idle
  /\ last.op \in {"Dataset", "setattr", "get_path"}
  /\ last' = [last EXCEPT !.op = "setattr", !.exc = None, !.path = <<>>,
                          !.obj.uuid = value,
                          !.obj.attrs = @ \cup {"uuid"}]
  /\ UNCHANGED <<fs, stack, tampered>>
  /\ UNCHANGED threads

\* lair.get_path(obj)
GetPath ==
  /\ Idle
  /\ last.op \in {"Dataset", "setattr", "get_path"}
  /\ LET r == get_path(last.obj)
     IN last' = [last EXCEPT !.op = "get_path", !.exc = r.exc,
                             !.path = r.path]
  /\ UNCHANGED <<fs, stack, tampered>>
  /\ UNCHANGED threads

\* lair.create_if_not_exist()
CreateIfNotExist ==
  /\ Idle
  /\ LET r == create_if_not_exist(fs)
     IN /\ fs' = r.fs
        /\ last' = [NoEvent EXCEPT !.op = "create_if_not_exist",
                                   !.phase = "returned",
                                   !.exc = r.exc, !.pre = fs]
  /\ UNCHANGED <<stack, tampered>>
  /\ UNCHANGED threads

\* lair.delete(force)
Delete(force) ==
  /\ Idle
  /\ LET r == delete(fs, force)
     IN /\ fs' = r.fs
        /\ last' = [NoEvent EXCEPT !.op = "delete", !.phase = "returned",
                                   !.exc = r.exc, !.force = force, !.pre = fs]
  /\ UNCHANGED <<stack, tampered>>
  /\ UNCHANGED threads

\* store.delete(force), the function variant
StoreDelete(force) ==
  /\ Idle
  /\ LET r == store_delete(fs, force)
     IN /\ fs' = r.fs
        /\ last' = [NoEvent EXCEPT !.op = "store_delete", !.phase = "returned",
                                   !.exc = r.exc, !.force = force, !.pre = fs]
  /\ UNCHANGED <<stack, tampered>>
  /\ UNCHANGED threads

\* lair.delete_from_store(u), by the program
DeleteFromStore(u) ==
  /\ Idle
  /\ LET r == delete_from_store(fs, u, 0)
     IN /\ fs' = r.fs
        /\ last' = [NoEvent EXCEPT !.op = "delete_from_store",
                                   !.phase = "returned", !.unit = u,
                                   !.exc = r.exc,
                                   !.existed = dataset_exists(fs, u),
                                   !.old = fs.entries[u], !.pre = fs]
  /\ UNCHANGED <<stack, tampered>>
  /\ UNCHANGED threads

\* lair.delete_all_empty_datasets_from_store(dry_run)
DeleteAllEmptyDatasetsFromStore(dry_run) ==
  /\ Idle
  /\ LET r == delete_all_empty_datasets_from_store(fs, dry_run)
     IN /\ fs' = r.fs
        /\ last' = [NoEvent EXCEPT
                      !.op = "delete_all_empty_datasets_from_store",
                      !.phase = "returned", !.exc = r.exc,
                      !.dry_run = dry_run, !.pre = fs]
  /\ UNCHANGED <<stack, tampered>>
  /\ UNCHANGED threads

\* lair.make_dataset_dir(u), by the program
MakeDatasetDir(u) ==
  /\ Idle
  /\ LET r == make_dataset_dir(fs, u, 0)
     IN /\ fs' = r.fs
        /\ last' = [NoEvent EXCEPT !.op = "make_dataset_dir",
                                   !.phase = "returned", !.unit = u,
                                   !.exc = r.exc,
                                   !.existed = dataset_exists(fs, u),
                                   !.old = fs.entries[u], !.pre = fs]
  /\ UNCHANGED <<stack, tampered>>
  /\ UNCHANGED threads

\* lair.derive(u), by the program or by a unit's logic.
Derive(u, fail) ==
  /\ CanEnter
  /\ LET r == derive_prepare(fs, u, Len(stack), fail)
     IN Enter("derive", u, FALSE,
              [fs |-> r.fs, exc |-> r.exc, run |-> r.exc = None])

\* lair.safe_derive(u, overwrite), by the program.
SafeDerive(u, overwrite, fail) ==
  /\ Idle
  /\ Enter("safe_derive", u, overwrite,
           safe_derive_prepare(fs, u, Len(stack), overwrite, fail))

\* lair.get_dataset_filepaths(u), by the program or by a unit's logic.
GetDatasetFilepaths(u) ==
  /\ CanCall
  /\ LET r == get_dataset_filepaths(fs, u, Len(stack))
     IN /\ stack' = IF Idle \/ r.exc # None \/ u \notin Top.derived
                    THEN Resume(stack, r.exc, {})
                    ELSE [stack EXCEPT ![Len(stack)].listed = @ \cup {u}]
        /\ last' = [NoEvent EXCEPT
                      !.op = "get_dataset_filepaths", !.phase = "returned",
                      !.unit = u, !.lvl = Len(stack), !.exc = r.exc,
                      !.existed = dataset_exists(fs, u), !.listing = r.map,
                      !.prev = IF /\ last.op = "derive" /\ last.phase = "returned"
                                  /\ last.unit = u /\ last.exc = None
                                  /\ ~tampered /\ last.lvl = Len(stack)
                               THEN [unit |-> u, wrote |-> last.wrote]
                               ELSE NoPrev,
                      !.pre = fs]
  /\ UNCHANGED <<fs, tampered>>
  /\ UNCHANGED threads

\* The unit's logic writes file n into the directory lair.get_path(self).
LogicWrite(n) ==
  /\ InLogic
  /\ dataset_exists(fs, Top.unit)
  /\ fs' = write_file(fs, Top.unit, n)
  /\ stack' = [stack EXCEPT ![Len(stack)].wrote = @ \cup {n}]
  /\ last' = LogicStep
  /\ UNCHANGED tampered
  /\ UNCHANGED threads

\* The unit's logic removes its own directory.
LogicRemoveOwnDir ==
  /\ InLogic
  /\ dataset_exists(fs, Top.unit)
  /\ fs' = rmtree(fs, Top.unit)
  /\ tampered' = TRUE
  /\ last' = LogicStep
  /\ UNCHANGED stack
  /\ UNCHANGED threads

\* The unit's logic removes the store's marker file.
LogicRemoveConfig ==
  /\ InLogic
  /\ fs.config
  /\ fs' = [fs EXCEPT !.config = FALSE]
  /\ tampered' = TRUE
  /\ last' = LogicStep
  /\ UNCHANGED stack
  /\ UNCHANGED threads

\* The unit's logic handles the exception a call into the Lair raised.
LogicCatch ==
  /\ Raising
  /\ stack' = [stack EXCEPT ![Len(stack)].pending = None]
  /\ last' = LogicStep
  /\ UNCHANGED <<fs, tampered>>
  /\ UNCHANGED threads

\* The unit's logic raises: an exception of its own, or the one a call into
\* the Lair raised, which it lets through.
LogicRaise ==
  /\ stack # <<>>
  /\ Leave(IF Top.pending # None THEN Top.pending
           ELSE Exc("Exception", "logic", Len(stack)))

\* The unit's logic is aborted by an error that is no Exception: Ctrl-C, or
\* sys.exit() called in the logic.
LogicInterrupt(kind) ==
  /\ Unwinding
  /\ Leave(Exc(kind, "logic", Len(stack)))

\* The unit's logic returns.
LogicReturn ==
  /\ Unwinding
  /\ Leave(None)

\* ------------------------------------------- Lair: concurrent derive

\* The thread's record after a statement with outcome r: it goes on to the
\* statement next, or derive raises r.exc.
After(t, r, next) ==
  [threads[t] EXCEPT !.pc = IF r.exc = None THEN next ELSE "done",
                     !.exc = r.exc]

\* Thread t executed a statement with outcome r and is now as th says.
ThreadStep(t, r, th) ==
  /\ fs' = r.fs
  /\ threads' = [threads EXCEPT ![t] = th]
  /\ last' = [NoEvent EXCEPT !.op = "derive", !.phase = "step",
                             !.unit = RaceUnit, !.exc = r.exc,
                             !.thread = t, !.pre = fs]
  /\ UNCHANGED <<stack, tampered>>

\* open(<unit's directory>/<name>, "w"): r when the directory is there.
InDir(f, r) ==
  IF f.entries[RaceUnit].kind = "dir" THEN r
  ELSE Ret(f, Exc("FileNotFoundError", "open", 0))

\* The thread calls lair.derive(RaceUnit).
ThreadCall(t, fail) ==
  /\ threads[t].pc = "idle"
  /\ ThreadStep(t, Ret(fs, None),
                [NotCalled EXCEPT !.pc = "derive", !.fail = fail])

\* _lair.py:471-473: assert_ok_satus, assert_dataset_missing.
ThreadAssertMissing(t) ==
  /\ threads[t].pc = "derive"
  /\ LET s1 == assert_ok_satus(fs, 0)
         r == IF s1.exc # None THEN s1
              ELSE assert_dataset_missing(fs, RaceUnit, 0)
     IN ThreadStep(t, r, After(t, r, "make_dataset_dir"))

\* _lair.py:446: the assert_dataset_missing of make_dataset_dir.
ThreadMakeAssert(t) ==
  /\ threads[t].pc = "make_dataset_dir"
  /\ LET r == assert_dataset_missing(fs, RaceUnit, 0)
     IN ThreadStep(t, r,
          [After(t, r, "mkdir") EXCEPT
             !.early = r.exc = None /\ \A o \in Threads : ~threads[o].made])

\* _lair.py:448: dir_path.mkdir(parents=False, exist_ok=False).
\* Mutant: a mkdir that fails is handled by the except clause of derive.
ThreadMkdir_in_try(t) ==
  /\ threads[t].pc = "mkdir"
  /\ LET r == mkdir(fs, RaceUnit, 0)
     IN ThreadStep(t, [r EXCEPT !.exc = None],
          IF r.exc = None
          THEN [threads[t] EXCEPT !.pc = "save_dataset_metadata", !.made = TRUE]
          ELSE [threads[t] EXCEPT !.pc = "except", !.exc = r.exc])

ThreadMkdir(t) ==
  /\ threads[t].pc = "mkdir"
  /\ LET r == mkdir(fs, RaceUnit, 0)
     IN ThreadStep(t, r,
          [After(t, r, "save_dataset_metadata") EXCEPT !.made = r.exc = None])

\* _lair.py:475
ThreadSaveMetadata(t) ==
  /\ threads[t].pc = "save_dataset_metadata"
  /\ LET r == InDir(fs, save_dataset_metadata(fs, RaceUnit, 0, threads[t].fail))
     IN ThreadStep(t, r, After(t, r, "save_dataset_implementation"))

\* _lair.py:476
ThreadSaveImplementation(t) ==
  /\ threads[t].pc = "save_dataset_implementation"
  /\ LET r == InDir(fs, save_dataset_implementation(fs, RaceUnit, 0,
                                                    threads[t].fail))
     IN ThreadStep(t, r, After(t, r, "assert_dataset_exists"))

\* _lair.py:477
ThreadAssertExists(t) ==
  /\ threads[t].pc = "assert_dataset_exists"
  /\ LET r == assert_dataset_exists(fs, RaceUnit, 0)
     IN ThreadStep(t, r, After(t, r, "logic"))

\* _lair.py:478-479: the unit's logic writes a file and returns, or raises.
ThreadLogic(t, raises) ==
  /\ threads[t].pc = "logic"
  /\ LET r == IF raises THEN Ret(fs, Exc("Exception", "logic", 0))
              ELSE InDir(fs, Ret(write_file(fs, RaceUnit, File("x", ".dat")),
                                 None))
     IN ThreadStep(t, [r EXCEPT !.exc = None],
          [threads[t] EXCEPT !.pc = IF r.exc = None THEN "done" ELSE "except",
                             !.exc = r.exc])

\* _lair.py:479: the unit's logic writes a file and goes on.
ThreadWrite(t) ==
  /\ threads[t].pc = "logic"
  /\ LET r == InDir(fs, Ret(write_file(fs, RaceUnit, File("x", ".dat")), None))
     IN ThreadStep(t, [r EXCEPT !.exc = None],
          [threads[t] EXCEPT !.pc = IF r.exc = None THEN "logic" ELSE "except",
                             !.exc = r.exc])

\* _lair.py:479, 558-569: the unit's logic calls
\* lair.delete_all_empty_datasets_from_store(dry_run) and goes on.
ThreadSweep(t, dry_run) ==
  /\ threads[t].pc = "logic"
  /\ LET r == delete_all_empty_datasets_from_store(fs, dry_run)
     IN /\ fs' = r.fs
        /\ threads' = [threads EXCEPT ![t] =
             [@ EXCEPT !.pc = IF r.exc = None THEN "logic" ELSE "except",
                       !.exc = r.exc]]
        /\ last' = [NoEvent EXCEPT
                      !.op = "delete_all_empty_datasets_from_store",
                      !.phase = "returned", !.exc = r.exc,
                      !.dry_run = dry_run, !.pre = fs, !.thread = t]
  /\ UNCHANGED <<stack, tampered>>

\* _lair.py:480-482: the rollback, and the exception is raised again.
ThreadExcept(t) ==
  /\ threads[t].pc = "except"
  /\ LET r == derive_except(fs, RaceUnit, 0, threads[t].exc)
     IN ThreadStep(t, r,
          [threads[t] EXCEPT !.pc = "done", !.exc = r.exc,
                             !.removed = r.fs # fs])

\* ----------------------------------------------------- Store: pure

\* What calling a dataset function gives: it raises, or returns a DatasetDict,
\* here the sequence of its items, each a key and the type of its value.
\* save_dataset_file (store.py:89-104) writes a "dict" value to <key>.pkl and
\* raises IOError for a value of a type it does not know ("object").
ValueTypes == {"dict", "object"}
Items == [key : OutKeys, type : ValueTypes]
DistinctKeys(s) == \A i, j \in DOMAIN s : i # j => s[i].key # s[j].key
ItemSeqs == {s \in UNION {[1..n -> Items] : n \in 0..MaxKeys} : DistinctKeys(s)}
Bodies ==
  {[raises |-> TRUE, items |-> <<>>]} \cup
  {[raises |-> FALSE, items |-> s] : s \in ItemSeqs}

\* Store._resolve_dependencies (store.py:233-244): the parameters' defaults in
\* declaration order. A default that is no dataset function is a ValueError;
\* a dependency that exists is skipped; for one that does not, the method
\* calls self.save_to_store, which Store does not define.
RECURSIVE resolve_from(_, _, _)
resolve_from(f, deps, i) ==
  IF i > Len(deps) THEN Ret(f, None)
  ELSE IF deps[i] \notin Funcs
  THEN Ret(f, Exc("ValueError", "_resolve_dependencies", 0))
  ELSE IF dataset_exists(f, deps[i])
  THEN resolve_from(f, deps, i + 1)
  ELSE Ret(f, Exc("AttributeError", "save_to_store", 0))

resolve_dependencies(f, func) == resolve_from(f, Params[func], 1)

\* Store._initialize_temporary_dataset_directory (store.py:249-254).
initialize_temporary_dataset_directory(f) ==
  [f EXCEPT !.entries[TmpDataset] = Dir({})]

\* path.joinpath(filename + ext) (store.py:98), as pathlib reads the name
\* back: the suffix starts at the last dot, unless that dot is the first
\* character of the name, and then the whole name is the stem.
\* Mutant: the file is written without the extension.
FileName_suffix_dropped(filename, ext) == File(filename, "")

FileName(filename, ext) ==
  IF filename = "" THEN File(ext, "") ELSE File(filename, ext)

\* Store._save_datasets_to_temporary_dataset_directory (store.py:277-279):
\* the items in order, up to the first that cannot be written.
RECURSIVE save_items(_, _, _)
save_items(f, items, i) ==
  IF i > Len(items) THEN Ret(f, None)
  ELSE IF items[i].type = "dict"
  THEN save_items(write_file(f, TmpDataset, FileName(items[i].key, ".pkl")),
                  items, i + 1)
  ELSE Ret(f, Exc("IOError", "save_dataset_file", 0))

\* Store._replace_with_temporary_dataset_directory (store.py:281-283).
\* Mutant: the temporary directory is copied, not moved.
replace_with_copy_of_temporary(f, func) ==
  [f EXCEPT !.entries[func] = f.entries[TmpDataset]]

replace_with_temporary_dataset_directory(f, func) ==
  [f EXCEPT !.entries[func] = f.entries[TmpDataset],
            !.entries[TmpDataset] = Absent]

\* Store.save (store.py:285-296).
\* Mutant: the dependencies are resolved and the temporary directory is made
\* before the existing dataset is looked at.
save_resolves_first(f, func, overwrite, body) ==
  LET s1 == assert_ok_satus(f, 0)
      s3 == resolve_dependencies(f, func)
      s4 == initialize_temporary_dataset_directory(f)
  IN IF s1.exc # None THEN s1
     ELSE IF s3.exc # None THEN s3
     ELSE Ret(s4, Exc("FileExistsError", "save", 0))

save(f, func, overwrite, body) ==
  LET s1 == assert_ok_satus(f, 0)
      s3 == resolve_dependencies(f, func)
      s4 == initialize_temporary_dataset_directory(f)
      s5 == write_file(s4, TmpDataset, MetadataFile)
      s7 == save_items(s5, body.items, 1)
  IN IF s1.exc # None THEN s1
     ELSE IF dataset_exists(f, func) /\ ~overwrite
     THEN Ret(f, Exc("FileExistsError", "save", 0))
     ELSE IF s3.exc # None THEN s3
     ELSE IF body.raises THEN Ret(s5, Exc("Exception", "dataset_function", 0))
     ELSE IF s7.exc # None THEN s7
     ELSE Ret(replace_with_temporary_dataset_directory(s7.fs, func), None)

\* Store.delete_from_store (store.py:227-231): os.remove of the dataset's
\* directory. os.remove refuses a directory with an OSError
\* (IsADirectoryError on Linux, PermissionError on macOS).
store_delete_from_store(f, func) ==
  LET a == assert_ok_satus(f, 0)
  IN IF a.exc # None THEN a
     ELSE IF ~dataset_exists(f, func)
     THEN Ret(f, Exc("FileExistsError", "delete_from_store", 0))
     ELSE Ret(f, Exc("OSError", "os.remove", 0))

\* The suffixes load_dataset_file (store.py:117-131) and
\* get_dataset_file_handle (store.py:107-114) know.
LoadSuffixes == {".pkl", ".h5ad", ".h5pd", ".json", ".csv"}
HandleSuffixes == {".txt", ".csv", ".tsv"}
Modes == {"data", "handle", "filepath", "other"}

\* What <dataset path>.glob("*") yields, and the orders it may yield it in.
GlobFiles(f, func) ==
  IF f.entries[func].kind = "dir" THEN f.entries[func].files ELSE {}

Orders(S) ==
  {p \in [1..Cardinality(S) -> S] : \A i, j \in DOMAIN p : i # j => p[i] # p[j]}

\* file.name and file.stem of a file that glob yields.
name(file) == file.stem \o file.suffix

\* Mutant: the key is the whole file name.
stem_is_name(file) == name(file)

stem(file) == file.stem

\* The loop of Store.load (store.py:301-312) over the files in order ord,
\* from the i-th on, keys being the keys set so far and files the files they
\* were set for.
RECURSIVE load_from(_, _, _, _)
load_from(ord, i, mode, keys) ==
  IF i > Len(ord) THEN [exc |-> None, keys |-> keys]
  ELSE IF name(ord[i]) = name(MetadataFile)
  THEN load_from(ord, i + 1, mode, keys)
  ELSE IF mode = "other"
  THEN [exc |-> Exc("ValueError", "load", 0), keys |-> keys]
  ELSE IF mode = "data" /\ ord[i].suffix \notin LoadSuffixes
  THEN [exc |-> Exc("IOError", "load_dataset_file", 0), keys |-> keys]
  ELSE IF mode = "handle" /\ ord[i].suffix = ".h5ad"
  THEN [exc |-> Exc("ValueError", "open", 0), keys |-> keys]
  ELSE IF mode = "handle" /\ ord[i].suffix \notin HandleSuffixes
  THEN [exc |-> Exc("IOError", "get_dataset_file_handle", 0), keys |-> keys]
  ELSE IF stem(ord[i]) \in {d.key : d \in keys}
  THEN [exc |-> Exc("KeyError", "DatasetDict.__setitem__", 0), keys |-> keys]
  ELSE load_from(ord, i + 1, mode,
                 keys \cup {[key |-> stem(ord[i]), file |-> ord[i]]})

\* Store.load (store.py:298-315).
\* Mutant: an empty DatasetDict is returned as it is.
load_may_be_empty(f, func, mode, ord) ==
  LET a == assert_ok_satus(f, 0)
      l == load_from(ord, 1, mode, {})
  IN IF a.exc # None THEN [exc |-> a.exc, keys |-> {}] ELSE l

load(f, func, mode, ord) ==
  LET a == assert_ok_satus(f, 0)
      l == load_from(ord, 1, mode, {})
  IN IF a.exc # None THEN [exc |-> a.exc, keys |-> {}]
     ELSE IF l.exc # None THEN l
     ELSE IF l.keys = {}
     THEN [exc |-> Exc("FileExistsError", "load", 0), keys |-> {}]
     ELSE l

\* store.delete_from_store(func)
StoreDeleteFromStore(func) ==
  /\ Idle
  /\ LET r == store_delete_from_store(fs, func)
     IN /\ fs' = r.fs
        /\ last' = [NoEvent EXCEPT !.op = "store_delete_from_store",
                                   !.phase = "returned", !.unit = func,
                                   !.exc = r.exc,
                                   !.existed = dataset_exists(fs, func),
                                   !.old = fs.entries[func], !.pre = fs]
  /\ UNCHANGED <<stack, tampered>>
  /\ UNCHANGED threads

\* store.load(func, mode); glob yields the files in some order.
Load(func, mode) ==
  /\ Idle
  /\ \E ord \in Orders(GlobFiles(fs, func)) :
     LET r == load(fs, func, mode, ord)
     IN last' = [NoEvent EXCEPT !.op = "load", !.phase = "returned",
                                !.unit = func, !.exc = r.exc,
                                !.existed = dataset_exists(fs, func),
                                !.old = fs.entries[func],
                                !.loaded = {[key |-> d.key,
                                             path |-> PathOf(func, d.file)] :
                                            d \in r.keys},
                                !.mode = mode, !.pre = fs,
                                !.prev = IF /\ last.op = "save"
                                            /\ last.exc = None
                                            /\ last.unit = func
                                         THEN [unit |-> func,
                                               wrote |-> {last.body.items[i].key :
                                                 i \in DOMAIN last.body.items}]
                                         ELSE NoPrev]
  /\ UNCHANGED <<fs, stack, tampered>>
  /\ UNCHANGED threads

\* store.save(func, overwrite)
Save(func, overwrite, body) ==
  /\ Idle
  /\ LET r == save(fs, func, overwrite, body)
     IN /\ fs' = r.fs
        /\ last' = [NoEvent EXCEPT !.op = "save", !.phase = "returned",
                                   !.unit = func, !.exc = r.exc,
                                   !.overwrite = overwrite,
                                   !.existed = dataset_exists(fs, func),
                                   !.pre = fs, !.body = body]
  /\ UNCHANGED <<stack, tampered>>
  /\ UNCHANGED threads

Next ==
  \/ Create
  \/ \E u \in Units, fail \in Fails : Derive(u, fail)
  \/ \E u \in Units, overwrite \in BOOLEAN, fail \in Fails :
       SafeDerive(u, overwrite, fail)
  \/ \E u \in Units : GetDatasetFilepaths(u)
  \/ \E n \in WriteNames : LogicWrite(n)
  \/ LogicRemoveOwnDir
  \/ LogicRemoveConfig
  \/ LogicCatch
  \/ LogicRaise
  \/ LogicReturn

Spec == Init /\ [][Next]_vars

\* The store's lifecycle. The root path is given by the user, so the program
\* may find anything there: nothing, a regular file, or a directory with or
\* without the marker file, holding directories and regular files.
DirContents ==
  {{}, {MetadataFile}, ReservedNames,
   {File("x", ".dat")}, ReservedNames \cup {File("x", ".dat")}}

EntryStates == {Absent, RegularFile} \cup {Dir(c) : c \in DirContents}

FoundFs ==
  {NoFs, FileFs} \cup
  {[root |-> "dir", config |-> c,
    entries |-> [k \in Keys |-> IF k \in Units THEN e[k] ELSE Absent]] :
     c \in BOOLEAN, e \in [Units -> EntryStates]}

InitFound ==
  /\ fs \in FoundFs
  /\ stack = <<>>
  /\ last = NoEvent
  /\ tampered = FALSE
  /\ threads = NoThreads

NextLifecycle ==
  \/ Status
  \/ Create
  \/ CreateIfNotExist
  \/ \E force \in BOOLEAN : Delete(force)
  \/ \E force \in BOOLEAN : StoreDelete(force)
  \/ \E u \in Units : DeleteFromStore(u)
  \/ \E dry_run \in BOOLEAN : DeleteAllEmptyDatasetsFromStore(dry_run)
  \/ \E u \in Units : MakeDatasetDir(u)
  \/ \E u \in Units : GetDatasetFilepaths(u)

SpecLifecycle == InitFound /\ [][NextLifecycle]_vars

\* Identifiers: the program constructs UUIDs from arbitrary values.
NextUUID == \E value \in Values : NewUUID(value)

SpecUUID == Init /\ [][NextUUID]_vars

\* Units: the program constructs Datasets, changes their uuid and asks the
\* Lair for their paths.
NextName ==
  \/ \E cls \in ClassNames, uuid \in ClassUUIDs, namespace \in Namespaces :
       NewDataset(cls, uuid, namespace)
  \/ \E value \in UUIDStrings : SetUUID(value)
  \/ GetPath

SpecName == Init /\ [][NextName]_vars

\* A Lair whose units write files named like the store's marker file.
NextMarker ==
  \/ Create
  \/ \E u \in Units, fail \in Fails : Derive(u, fail)
  \/ \E u \in Units : GetDatasetFilepaths(u)
  \/ \E n \in MarkerWriteNames : LogicWrite(n)
  \/ LogicCatch
  \/ LogicRaise
  \/ LogicReturn

SpecMarker == Init /\ [][NextMarker]_vars

\* The function variant: a Store at the root path.
NextStore ==
  \/ Create
  \/ \E func \in Funcs, overwrite \in BOOLEAN, body \in Bodies :
       Save(func, overwrite, body)
  \/ \E func \in Funcs, mode \in Modes : Load(func, mode)
  \/ \E func \in Funcs : StoreDeleteFromStore(func)

SpecStore == Init /\ [][NextStore]_vars

\* A store that is OK, used by a program through a Lair and through a Store
\* at the same root path. The program makes the calls one after the other;
\* the units' logic writes only inside the unit's own directory and calls
\* nothing.
InitOk ==
  /\ fs = create(NoFs).fs
  /\ stack = <<>>
  /\ last = NoEvent
  /\ tampered = FALSE
  /\ threads = NoThreads

\* lair.derive(u) and lair.safe_derive(u, overwrite), by the program
ProgramDerive(u, fail) == Idle /\ Derive(u, fail)

ProgramSafeDerive(u, overwrite, fail) == Idle /\ SafeDerive(u, overwrite, fail)

\* The units the program derives; the dataset function it saves is fA.
OkUnits == {UnitTable[1], UnitTable[2]}

NextOk ==
  \/ \E u \in OkUnits, fail \in Fails : ProgramDerive(u, fail)
  \/ \E u \in OkUnits, overwrite \in BOOLEAN, fail \in Fails :
       ProgramSafeDerive(u, overwrite, fail)
  \/ \E u \in OkUnits : DeleteFromStore(u)
  \/ \E dry_run \in BOOLEAN : DeleteAllEmptyDatasetsFromStore(dry_run)
  \/ \E n \in DataNames : LogicWrite(n)
  \/ LogicRaise
  \/ LogicReturn
  \/ \E overwrite \in BOOLEAN, body \in Bodies : Save("fA", overwrite, body)
  \/ \E mode \in Modes : Load("fA", mode)

SpecOk == InitOk /\ [][NextOk]_vars

\* A program that derives units of a created store whose logic may be
\* interrupted.
NextInterrupt ==
  \/ \E u \in OkUnits, fail \in Fails : ProgramDerive(u, fail)
  \/ \E u \in OkUnits, overwrite \in BOOLEAN, fail \in Fails :
       ProgramSafeDerive(u, overwrite, fail)
  \/ \E u \in OkUnits : DeleteFromStore(u)
  \/ \E n \in DataNames : LogicWrite(n)
  \/ \E kind \in Interruptions : LogicInterrupt(kind)
  \/ LogicRaise
  \/ LogicReturn

SpecInterrupt == InitOk /\ [][NextInterrupt]_vars

\* Threads that derive the same unit of a created store at the same time.
NextRace ==
  \/ \E t \in Threads, fail \in Fails : ThreadCall(t, fail)
  \/ \E t \in Threads : ThreadAssertMissing(t)
  \/ \E t \in Threads : ThreadMakeAssert(t)
  \/ \E t \in Threads : ThreadMkdir(t)
  \/ \E t \in Threads : ThreadSaveMetadata(t)
  \/ \E t \in Threads : ThreadSaveImplementation(t)
  \/ \E t \in Threads : ThreadAssertExists(t)
  \/ \E t \in Threads, raises \in BOOLEAN : ThreadLogic(t, raises)
  \/ \E t \in Threads : ThreadExcept(t)

SpecRace == InitOk /\ [][NextRace]_vars

\* Concurrent derive calls whose preparation succeeds and whose logic writes
\* in steps, with the sweep called by the unit's logic and by another caller
\* of the same Lair.
NextSweep ==
  \/ \E t \in Threads : ThreadCall(t, "none")
  \/ \E t \in Threads : ThreadAssertMissing(t)
  \/ \E t \in Threads : ThreadMakeAssert(t)
  \/ \E t \in Threads : ThreadMkdir(t)
  \/ \E t \in Threads : ThreadSaveMetadata(t)
  \/ \E t \in Threads : ThreadSaveImplementation(t)
  \/ \E t \in Threads : ThreadAssertExists(t)
  \/ \E t \in Threads : ThreadWrite(t)
  \/ \E t \in Threads, dry_run \in BOOLEAN : ThreadSweep(t, dry_run)
  \/ \E t \in Threads, raises \in BOOLEAN : ThreadLogic(t, raises)
  \/ \E t \in Threads : ThreadExcept(t)
  \/ \E dry_run \in BOOLEAN : DeleteAllEmptyDatasetsFromStore(dry_run)

SpecSweep == InitOk /\ [][NextSweep]_vars

\* --------------------------------------------------------- properties

DeriveOps == {"derive", "safe_derive"}

\* A call that went through Lair.derive came back after the unit's logic ran.
DeriveReturned == last.op \in DeriveOps /\ last.phase = "returned" /\ last.ran

\* C1. Commit atomicity: when the unit's logic raised after writing any of
\* its files (and did not tamper with the store), Lair.derive has propagated
\* an error and nothing is left at the unit's path.
C1_CommitAtomicity ==
  (DeriveReturned /\ last.logicExc # None /\ ~tampered)
    => /\ last.exc # None
       /\ ~dataset_exists(fs, last.unit)
       /\ fs.entries[last.unit] = Absent

C1_Witness ==
  /\ DeriveReturned /\ last.op = "derive" /\ ~tampered
  /\ last.logicExc.site = "logic"
  /\ File("x", ".dat") \in last.wrote
  /\ fs.entries[last.unit] = Absent

\* C2. Rollback covers the steps between directory creation and the unit's
\* logic: when Lair.derive failed writing __metadata__.json, serializing the
\* unit or re-asserting existence, the unit's directory is gone when the error
\* reaches the caller.
C2_RollbackCoversPreparation ==
  (/\ last.op = "derive" /\ last.phase = "returned" /\ ~last.ran
   /\ last.exc.site \in {"save_dataset_metadata", "save_dataset_implementation",
                         "assert_dataset_exists"})
    => ~dataset_exists(fs, last.unit)

\* C3. Whenever the unit's logic raised E inside Lair.derive, the error that
\* reaches the caller is E itself, whatever the logic did before raising.
C3_ErrorUnchanged ==
  (DeriveReturned /\ last.logicExc # None) => last.exc = last.logicExc

\* C4. Lair.derive refuses to clobber: called for a dataset that exists, it
\* fails with an assertion error, never reaches the unit's logic or the
\* rollback, and leaves the filesystem exactly as it was.
C4_RefuseToClobber ==
  (last.op = "derive" /\ last.existed)
    => /\ last.phase = "returned" /\ ~last.ran
       /\ last.exc.kind = "AssertionError"
       /\ fs = last.pre

C4_Witness ==
  /\ last.op = "derive" /\ last.existed
  /\ last.exc.site = "assert_dataset_missing"
  /\ File("x", ".dat") \in fs.entries[last.unit].files
  /\ fs = last.pre

\* C5. safe_derive without overwrite is idempotent: a successful call leaves
\* the dataset present, and a call for a dataset that is present returns
\* without error, does not reach the unit's logic and changes nothing.
C5_SafeDeriveIdempotent ==
  /\ (/\ last.op = "safe_derive" /\ last.phase = "returned" /\ last.ran
      /\ last.exc = None /\ ~tampered)
       => dataset_exists(fs, last.unit)
  /\ (/\ last.op = "safe_derive" /\ ~last.overwrite /\ last.existed
      /\ status(last.pre) = "OK")
       => /\ last.phase = "returned" /\ ~last.ran
          /\ last.exc = None
          /\ fs = last.pre

C5_Witness ==
  /\ last.op = "safe_derive" /\ ~last.overwrite /\ last.existed
  /\ status(last.pre) = "OK" /\ last.phase = "returned" /\ last.exc = None
  /\ File("x", ".dat") \in fs.entries[last.unit].files
  /\ fs = last.pre

\* C6. Overwrite: after safe_derive(unit, overwrite=True) succeeded on an
\* existing dataset, the directory holds exactly the two reserved files and
\* the files the new derivation wrote; the old outputs it did not write are
\* gone.
C6_OverwriteReplaces ==
  (/\ last.op = "safe_derive" /\ last.overwrite /\ last.existed
   /\ last.phase = "returned" /\ last.ran /\ last.exc = None /\ ~tampered)
    => /\ fs.entries[last.unit] = Dir(ReservedNames \cup last.wrote)
       /\ \A n \in last.old.files \ (ReservedNames \cup last.wrote) :
            n \notin fs.entries[last.unit].files

C6_Witness ==
  /\ last.op = "safe_derive" /\ last.overwrite /\ last.existed
  /\ last.phase = "returned" /\ last.ran /\ last.exc = None /\ ~tampered
  /\ File("x", ".dat") \in last.old.files
  /\ File("x", ".dat") \notin fs.entries[last.unit].files

AllDict(items) == \A i \in DOMAIN items : items[i].type = "dict"

\* C7. Dependency resolution: Store.save of a unit whose parameters' defaults
\* are dataset functions, on an OK store, with a function body that returns
\* values the store can write, succeeds; afterwards the unit and all its
\* dependencies exist, whether the dependencies existed before or not.
C7_DependenciesResolved ==
  (/\ last.op = "save" /\ status(last.pre) = "OK" /\ ~last.existed
   /\ Params[last.unit] # <<>>
   /\ \A i \in DOMAIN Params[last.unit] : Params[last.unit][i] \in Funcs
   /\ ~last.body.raises /\ AllDict(last.body.items))
    => /\ last.exc = None
       /\ dataset_exists(fs, last.unit)
       /\ \A i \in DOMAIN Params[last.unit] :
            dataset_exists(fs, Params[last.unit][i])

\* C8. Re-entrant derive: a unit's logic derives another, absent unit through
\* the Lair. The inner call returns to the logic with both directories in
\* place; get_dataset_filepaths, called by the logic right after, lists the
\* files the inner unit wrote; and when the outer logic returns, Lair.derive
\* returns normally with both datasets present and the store's status OK.
C8_ReentrantDerive ==
  /\ (/\ last.op = "derive" /\ last.phase = "returned" /\ last.ran
      /\ last.exc = None /\ last.lvl >= 1 /\ ~tampered)
       => /\ stack # <<>> /\ Top.pending = None
          /\ last.unit \in Top.derived
          /\ dataset_exists(fs, last.unit) /\ dataset_exists(fs, Top.unit)
          /\ status(fs) = "OK"
  /\ (/\ last.op = "get_dataset_filepaths" /\ last.lvl >= 1
      /\ last.prev.unit = last.unit)
       => /\ last.exc = None
          /\ DOMAIN last.listing = last.prev.wrote \ ReservedNames
          /\ last.unit \in Top.listed
  /\ (DeriveReturned /\ last.logicExc = None /\ last.derived # {} /\ ~tampered)
       => /\ last.exc = None
          /\ dataset_exists(fs, last.unit)
          /\ \A d \in last.derived : dataset_exists(fs, d)
          /\ status(fs) = "OK"

C8_Witness ==
  /\ last.op = "derive" /\ last.phase = "returned" /\ last.lvl = 0
  /\ last.exc = None /\ ~tampered
  /\ last.unit = "B" /\ last.derived = {"A"} /\ "A" \in last.listed
  /\ ~last.old.kind = "dir"
  /\ File("x", ".dat") \in fs.entries["A"].files
  /\ File("x", ".dat") \in last.wrote
  /\ dataset_exists(fs, "B") /\ status(fs) = "OK"

\* C9. After a successful Lair.derive in which the unit's logic wrote the
\* file names F, none of them reserved, the directory holds exactly F and
\* the two reserved files, and get_dataset_filepaths maps exactly the names
\* of F, each to its path under the unit's directory.
C9_DerivedContents ==
  (/\ DeriveReturned /\ last.exc = None /\ ~tampered
   /\ last.wrote \cap ReservedNames = {})
    => /\ fs.entries[last.unit] = Dir(last.wrote \cup ReservedNames)
       /\ get_dataset_filepaths(fs, last.unit, 0)
            = [exc |-> None, map |-> [n \in last.wrote |-> PathOf(last.unit, n)]]

C9_Witness ==
  /\ DeriveReturned /\ last.op = "derive" /\ last.exc = None /\ ~tampered
  /\ last.wrote = {File("x", ".dat")}
  /\ DOMAIN get_dataset_filepaths(fs, last.unit, 0).map = {File("x", ".dat")}

\* C10. Reserved-file exclusion: the mapping get_dataset_filepaths returns
\* never has __metadata__.json or __dataset__.pkl among its keys, also when
\* the unit's logic wrote a file of such a name.
C10_ReservedExcluded ==
  /\ \A u \in Units :
       DOMAIN get_dataset_filepaths(fs, u, 0).map \cap ReservedNames = {}
  /\ last.op = "get_dataset_filepaths"
       => DOMAIN last.listing \cap ReservedNames = {}

C10_Witness ==
  /\ last.op = "get_dataset_filepaths" /\ last.exc = None
  /\ stack # <<>> /\ Top.unit = last.unit
  /\ MetadataFile \in Top.wrote
  /\ DOMAIN last.listing = {File("x", ".dat")}

\* C11 (as stated). __config__.json is never a key of the mapping returned by
\* get_dataset_filepaths, whatever the unit's logic wrote.
C11_ConfigNeverListed ==
  /\ \A u \in Units :
       ConfigName \notin DOMAIN get_dataset_filepaths(fs, u, 0).map
  /\ last.op = "get_dataset_filepaths" => ConfigName \notin DOMAIN last.listing

\* C11 (amended). get_dataset_filepaths filters two names only. The mapping
\* has the key __config__.json exactly when the unit's directory holds an
\* entry of that name, and after a successful derive that is exactly when
\* the unit's own logic wrote one: the Lair never puts the marker file into
\* a dataset directory.
C11_ConfigListedIffWritten ==
  /\ \A u \in Units :
       ConfigName \in DOMAIN get_dataset_filepaths(fs, u, 0).map
         <=> (/\ status(fs) = "OK" /\ dataset_exists(fs, u)
              /\ ConfigName \in fs.entries[u].files)
  /\ (DeriveReturned /\ last.exc = None /\ ~tampered)
       => (ConfigName \in DOMAIN get_dataset_filepaths(fs, last.unit, 0).map
             <=> ConfigName \in last.wrote)
  /\ (last.op = "get_dataset_filepaths" /\ last.prev.unit = last.unit)
       => (ConfigName \in DOMAIN last.listing
             <=> ConfigName \in last.prev.wrote)

C11_Witness ==
  /\ last.op = "get_dataset_filepaths" /\ last.exc = None
  /\ last.prev.unit = last.unit
  /\ last.prev.wrote = {File("x", ".dat"), ConfigName}
  /\ DOMAIN last.listing = {File("x", ".dat"), ConfigName}

\* C12. Empty-dataset sweep: on an OK store,
\* delete_all_empty_datasets_from_store(dry_run=False) removes every directory
\* below the root whose entry names are all among __metadata__.json and
\* __dataset__.pkl, and leaves every other directory, every regular file
\* below the root and the marker file as they were; with dry_run=True the
\* filesystem is unchanged.
C12_EmptyDatasetSweep ==
  (last.op = "delete_all_empty_datasets_from_store" /\ status(last.pre) = "OK")
    => /\ last.exc = None
       /\ fs.root = last.pre.root /\ fs.config = last.pre.config
       /\ last.dry_run => fs = last.pre
       /\ ~last.dry_run =>
            \A k \in Keys :
              fs.entries[k] =
                IF /\ last.pre.entries[k].kind = "dir"
                   /\ last.pre.entries[k].files \subseteq ReservedNames
                THEN Absent ELSE last.pre.entries[k]

C12_Witness ==
  /\ last.op = "delete_all_empty_datasets_from_store" /\ ~last.dry_run
  /\ status(last.pre) = "OK" /\ last.exc = None
  /\ last.pre.entries["A"] = Dir({MetadataFile})
  /\ last.pre.entries["B"] = Dir(ReservedNames \cup {File("x", ".dat")})
  /\ fs.entries["A"] = Absent
  /\ fs.entries["B"] = last.pre.entries["B"]

NotOk == Exc("AssertionError", "assert_ok_satus", 0)

\* C14. On a store whose status is NOT_EXIST or MALFORMED, each of derive,
\* safe_derive, make_dataset_dir, delete_from_store, get_dataset_filepaths,
\* delete_all_empty_datasets_from_store (Lair) and save, load,
\* delete_from_store (Store) fails with the AssertionError of assert_ok_satus,
\* leaves the filesystem unchanged and does not reach the unit's logic or
\* the dataset function.
C14_NotOkRefused ==
  /\ status(fs) # "OK" =>
       /\ \A u \in Units :
            /\ \A fail \in Fails : derive_prepare(fs, u, 0, fail) = Ret(fs, NotOk)
            /\ \A fail \in Fails, overwrite \in BOOLEAN :
                 safe_derive_prepare(fs, u, 0, overwrite, fail)
                   = [fs |-> fs, exc |-> NotOk, run |-> FALSE]
            /\ make_dataset_dir(fs, u, 0) = Ret(fs, NotOk)
            /\ delete_from_store(fs, u, 0) = Ret(fs, NotOk)
            /\ get_dataset_filepaths(fs, u, 0) = [exc |-> NotOk, map |-> <<>>]
       /\ \A dry_run \in BOOLEAN :
            delete_all_empty_datasets_from_store(fs, dry_run) = Ret(fs, NotOk)
       /\ \A func \in Funcs :
            /\ \A overwrite \in BOOLEAN, body \in Bodies :
                 save(fs, func, overwrite, body) = Ret(fs, NotOk)
            /\ \A mode \in Modes, ord \in Orders(GlobFiles(fs, func)) :
                 load(fs, func, mode, ord) = [exc |-> NotOk, keys |-> {}]
            /\ store_delete_from_store(fs, func) = Ret(fs, NotOk)
  /\ (/\ last.op \in {"make_dataset_dir", "delete_from_store",
                       "get_dataset_filepaths",
                       "delete_all_empty_datasets_from_store"}
      /\ status(last.pre) # "OK")
       => last.exc = NotOk /\ fs = last.pre

C14_Witness ==
  /\ last.op = "delete_from_store" /\ status(last.pre) = "MALFORMED"
  /\ last.pre.root = "dir" /\ dataset_exists(last.pre, last.unit)
  /\ last.exc = NotOk /\ fs = last.pre

\* C15. create(): with nothing at the root path it makes the root directory
\* and the marker file, and status() is OK afterwards; with anything at the
\* root path (an OK store, a MALFORMED directory, a regular file) it fails
\* with FileExistsError and changes nothing.
C15_Create ==
  last.op = "create"
    => /\ last.pre.root = "absent"
            => /\ last.exc = None
               /\ status(fs) = "OK"
               /\ fs = [last.pre EXCEPT !.root = "dir", !.config = TRUE]
       /\ last.pre.root # "absent"
            => /\ last.exc.kind = "FileExistsError"
               /\ fs = last.pre

C15_Witness ==
  /\ last.op = "create" /\ last.pre.root = "dir" /\ ~last.pre.config
  /\ \E u \in Units : dataset_exists(last.pre, u)
  /\ last.exc.kind = "FileExistsError"
  /\ fs = last.pre /\ status(fs) = "MALFORMED"

\* C16. create_if_not_exist() never raises: from NOT_EXIST it leads to OK,
\* from OK or MALFORMED it changes nothing, and calling it again right
\* after changes nothing.
C16_CreateIfNotExist ==
  last.op = "create_if_not_exist"
    => /\ last.exc = None
       /\ status(last.pre) = "NOT_EXIST" => status(fs) = "OK"
       /\ status(last.pre) # "NOT_EXIST" => fs = last.pre
       /\ create_if_not_exist(fs) = Ret(fs, None)

C16_Witness ==
  /\ last.op = "create_if_not_exist" /\ last.exc = None
  /\ last.pre = [NoFs EXCEPT !.root = "dir", !.config = TRUE]
  /\ fs = last.pre

\* No dataset directory and no other entry is below the root, next to the
\* marker file: the store holds nothing.
HoldsNothing(f) == \A k \in Keys : f.entries[k] = Absent

\* C17. delete(force=False), of Lair and of Store: on an OK store that holds
\* nothing the root is removed; in every other state the call fails with an
\* IOError and the filesystem is unchanged.
C17_DeleteUnforced ==
  (last.op \in {"delete", "store_delete"} /\ ~last.force)
    => IF status(last.pre) = "OK" /\ HoldsNothing(last.pre)
       THEN last.exc = None /\ fs.root = "absent"
       ELSE last.exc.kind = "IOError" /\ fs = last.pre

\* C18. delete(force=True) completes without error from every state of the
\* root path, and nothing is at the root path afterwards.
C18_DeleteForced ==
  (last.op = "delete" /\ last.force)
    => last.exc = None /\ fs.root = "absent"

\* C19. Lair.delete_from_store(unit) on an OK store completes without error,
\* also when the unit has no directory; afterwards dataset_exists(unit) is
\* false and every other entry below the root and the marker file are as
\* before.
C19_DeleteFromStore ==
  (last.op = "delete_from_store" /\ status(last.pre) = "OK")
    => /\ last.exc = None
       /\ ~dataset_exists(fs, last.unit)
       /\ fs.root = last.pre.root /\ fs.config = last.pre.config
       /\ \A k \in Keys \ {last.unit} : fs.entries[k] = last.pre.entries[k]

\* C20. Identifier validity: UUID(value) succeeds and equals value exactly
\* when value is a string of exactly 16 characters from [0-9a-fA-F]; it
\* raises TypeError for a value that is no string and ValueError for every
\* other string.
C20_UUIDValidity ==
  last.op = "UUID"
    => IF last.value.type # "str"
       THEN last.exc.kind = "TypeError"
       ELSE IF /\ Len(last.value.chars) = UUIDLen
               /\ \A i \in 1..UUIDLen : last.value.chars[i] \in HexDigits
       THEN last.exc = None /\ last.made = last.value
       ELSE last.exc.kind = "ValueError"

\* The keys of the DatasetDict the last Store.load returned, and the files of
\* the function's directory that are not the metadata file.
LoadedKeys == {d.key : d \in last.loaded}

StoredFiles == GlobFiles(last.pre, last.unit) \ {MetadataFile}

\* What C21 says of the files: a load that returns is keyed by the stems of
\* the stored files, has no entry for __metadata__.json, and in mode
\* "filepath" maps each key to the path of a file that exists in the
\* function's directory and whose stem is the key.
LoadKeyedByStem ==
  /\ LoadedKeys = {n.stem : n \in StoredFiles}
  /\ \A d \in last.loaded : d.path # PathOf(last.unit, MetadataFile)
  /\ last.mode = "filepath"
       => \A d \in last.loaded :
            \E n \in StoredFiles : d.path = PathOf(last.unit, n) /\ n.stem = d.key

LoadAfterSave ==
  /\ last.op = "load" /\ last.mode \in {"data", "filepath"}
  /\ last.prev.unit = last.unit

C23_StatusPreserved ==
  /\ status(fs) = "OK"
  /\ fs.root = "dir" /\ fs.config

C23_Witness ==
  /\ last.op = "save" /\ last.exc.kind = "IOError"
  /\ fs.entries[TmpDataset].kind = "dir"
  /\ \E u \in Units : dataset_exists(fs, u)
  /\ status(fs) = "OK"

\* The threads that passed both 'missing' checks before any thread created
\* the directory, those of them that have executed their mkdir, and the
\* threads whose mkdir created the directory.
Early == {t \in Threads : threads[t].early}

EarlyPastMkdir == {t \in Early : threads[t].pc # "mkdir"}

Makers == {t \in Threads : threads[t].made}

\* Once a thread that passed the checks early has executed its mkdir, exactly
\* one thread has created the directory, and every other thread that passed
\* the checks early and has executed its mkdir failed there with
\* FileExistsError.
OneMakerOthersFail ==
  EarlyPastMkdir # {}
    => /\ Cardinality(Makers) = 1
       /\ \A t \in EarlyPastMkdir \ Makers :
            /\ threads[t].pc = "done"
            /\ threads[t].exc = Exc("FileExistsError", "mkdir", 0)

\* C24, as stated: when derive calls for the same missing unit are
\* interleaved so that they pass the 'missing' check before any of them
\* creates the directory, exactly one of them creates the directory and the
\* others fail at directory creation with a file-exists error of the
\* filesystem, not with the assertion error of the missing check.
C24_RaceLoserFails == OneMakerOthersFail

\* C24, amended: the same, as long as no call has rolled back (removed the
\* directory after its unit's logic raised); and a call that does not pass
\* both checks before the directory is created gets no further than the
\* checks, where it fails with the assertion error.
C24_RaceLoserFailsUnlessRolledBack ==
  (\A o \in Threads : ~threads[o].removed)
    => /\ OneMakerOthersFail
       /\ \A t \in Threads \ Early :
            \/ threads[t].pc \in {"idle", "derive", "make_dataset_dir"}
            \/ /\ threads[t].pc = "done"
               /\ threads[t].exc = Exc("AssertionError", "assert_dataset_missing", 0)

C24_Witness ==
  /\ \A o \in Threads : ~threads[o].removed
  /\ \E t1, t2 \in Early :
       /\ threads[t1].made /\ threads[t1].pc = "done" /\ threads[t1].exc = None
       /\ ~threads[t2].made /\ threads[t2].pc = "done"
       /\ threads[t2].exc = Exc("FileExistsError", "mkdir", 0)

\* The name of a unit of class cls with the uuid and namespace given.
NameOf(cls, uuid, namespace) ==
  LET dataset_name == IF uuid # <<>> THEN uuid[1] ELSE cls
  IN IF namespace # <<>> THEN namespace[1] \o "-" \o dataset_name
     ELSE dataset_name

\* C25: a Dataset's name is namespace + "-" + dataset_name when a namespace
\* is given and dataset_name otherwise, dataset_name being the unit's uuid
\* when it has one and its class name when not; the name stays what it was at
\* construction, constructing the same unit again gives the same name, and
\* get_path(unit) is the root joined with that name.
C25_UnitNaming ==
  last.op \in {"Dataset", "setattr", "get_path"}
    => LET a == last.args
           n == NameOf(a.cls, a.uuid, a.namespace)
       IN /\ last.obj.name = n
          /\ Dataset(NewObject(a.cls, a.uuid), a.namespace).name = last.obj.name
          /\ last.op = "get_path"
               => last.exc = None /\ last.path = <<"root", n>>

C25_Witness ==
  /\ last.op = "get_path"
  /\ last.args = [cls |-> "DatasetOne", uuid |-> <<"0123456789abcdef">>,
                  namespace |-> <<"ns">>]
  /\ last.obj.uuid = "0123456789ABCDEF"
  /\ last.path = <<"root", "ns-0123456789abcdef">>

\* C26: when a regular file occupies a unit's path in an OK store,
\* dataset_exists(unit) is false, make_dataset_dir(unit) and derive(unit)
\* pass the 'missing' assertion and fail with FileExistsError at mkdir, the
\* file is left as it is (no rollback runs), and make_dataset_dir never
\* creates the parent: it touches nothing but the unit's path.
C26_OccupiedPath ==
  /\ \A u \in Units :
       (status(fs) = "OK" /\ fs.entries[u] = RegularFile)
         => /\ ~dataset_exists(fs, u)
            /\ assert_dataset_missing(fs, u, 0) = Ret(fs, None)
            /\ make_dataset_dir(fs, u, 0)
                 = Ret(fs, Exc("FileExistsError", "mkdir", 0))
            /\ \A fail \in Fails :
                 derive_prepare(fs, u, 0, fail)
                   = Ret(fs, Exc("FileExistsError", "mkdir", 0))
  /\ (/\ last.op = "make_dataset_dir"
      /\ status(last.pre) = "OK" /\ last.old = RegularFile)
       => /\ last.exc = Exc("FileExistsError", "mkdir", 0)
          /\ fs = last.pre
  /\ last.op = "make_dataset_dir"
       => /\ fs.root = last.pre.root /\ fs.config = last.pre.config
          /\ \A k \in Keys \ {last.unit} : fs.entries[k] = last.pre.entries[k]

C26_Witness ==
  /\ last.op = "make_dataset_dir"
  /\ status(last.pre) = "OK" /\ last.old = RegularFile
  /\ last.exc.kind = "FileExistsError"
  /\ fs.entries[last.unit] = RegularFile

\* C27: Store.delete_from_store(unit), called on an OK store for a unit whose
\* dataset directory exists, removes that directory tree, so that
\* dataset_exists(unit) is false afterwards; called for a unit with no
\* dataset directory it raises an error and changes nothing.
C27_StoreDeleteFromStore ==
  (last.op = "store_delete_from_store" /\ status(last.pre) = "OK")
    => IF last.existed
       THEN last.exc = None /\ ~dataset_exists(fs, last.unit)
       ELSE last.exc # None /\ fs = last.pre

\* The first parameter of func whose default is no dataset function; 0 when
\* there is none.
Offending(func) ==
  LET bad == {i \in DOMAIN Params[func] : Params[func][i] \notin Funcs}
  IN IF bad = {} THEN 0 ELSE CHOOSE i \in bad : \A j \in bad : i <= j

\* C28: Store.save examines the parameters in declaration order and at the
\* first whose default is no DatasetFunction fails with ValueError, before
\* the body runs, before the temporary dataset directory is created and
\* without creating the unit's dataset directory; the dependencies listed
\* before that parameter have been resolved and are in the store.
C28_DependencyValidation ==
  (/\ last.op = "save" /\ status(last.pre) = "OK"
   /\ ~(last.existed /\ ~last.overwrite)
   /\ Offending(last.unit) # 0)
    => /\ last.exc = Exc("ValueError", "_resolve_dependencies", 0)
       /\ fs.entries[TmpDataset] = last.pre.entries[TmpDataset]
       /\ fs.entries[last.unit] = last.pre.entries[last.unit]
       /\ \A j \in 1..(Offending(last.unit) - 1) :
            dataset_exists(fs, Params[last.unit][j])

\* The functions func depends on, directly or through others, and whether
\* func is on a cycle of functions none of which is in the store f.
RECURSIVE DependsOn(_, _)
DependsOn(func, n) ==
  IF n = 0 THEN {}
  ELSE LET direct == {Params[func][i] : i \in DOMAIN Params[func]} \cap Funcs
       IN direct \cup UNION {DependsOn(d, n - 1) : d \in direct}

OnAbsentCycle(f, func) ==
  /\ func \in DependsOn(func, Cardinality(Funcs))
  /\ \A d \in DependsOn(func, Cardinality(Funcs)) :
       func \in DependsOn(d, Cardinality(Funcs)) => ~dataset_exists(f, d)

\* C29: for an acyclic dependency graph Store.save terminates, each absent
\* dependency being saved before its dependant's body runs; for a unit on a
\* cycle of absent units resolution reaches no body and recurses without
\* bound, so that save does not return.
C29_ResolutionTermination ==
  (last.op = "save" /\ status(last.pre) = "OK" /\ ~last.existed)
    => IF OnAbsentCycle(last.pre, last.unit)
       THEN last.phase # "returned"
       ELSE (Offending(last.unit) = 0
             /\ last.unit \notin DependsOn(last.unit, Cardinality(Funcs)))
              => /\ last.exc.site # "save_to_store"
                 /\ \A d \in DependsOn(last.unit, Cardinality(Funcs)) :
                      (last.exc = None \/ last.exc.site = "dataset_function"
                         \/ last.exc.site = "save_dataset_file")
                        => dataset_exists(fs, d)

\* C30: Store.load fails with FileExistsError exactly when the mapping it
\* has built is empty: for a unit that was never saved (no directory), for a
\* unit saved with zero output files (a directory holding only
\* __metadata__.json), and in no case where the directory holds a loadable
\* file other than the metadata file.
C30_LoadEmptyFails ==
  (last.op = "load" /\ status(last.pre) = "OK")
    => /\ last.exc = Exc("FileExistsError", "load", 0) <=> StoredFiles = {}
       /\ last.exc = None => LoadedKeys # {}
       /\ last.old.kind = "absent" => last.exc = Exc("FileExistsError", "load", 0)
       /\ (last.old.kind = "dir" /\ last.old.files = {MetadataFile})
            => last.exc = Exc("FileExistsError", "load", 0)

C30_Witness ==
  /\ last.op = "load" /\ status(last.pre) = "OK"
  /\ last.old = Dir({MetadataFile})
  /\ last.prev.unit = last.unit /\ last.prev.wrote = {}
  /\ last.exc = Exc("FileExistsError", "load", 0)

\* C31: Store.save(unit) without overwrite, for a unit whose dataset exists,
\* raises FileExistsError before it resolves a dependency, touches the
\* temporary directory or calls the unit's function, and leaves the
\* filesystem, the existing dataset directory with it, unchanged. The second
\* conjunct says so of every function, whatever its dependencies are and
\* whether they are in the store, for the store with a directory of the
\* function in it.
C31_SaveRefusesExisting ==
  /\ (/\ last.op = "save" /\ status(last.pre) = "OK"
      /\ last.existed /\ ~last.overwrite)
       => /\ last.exc = Exc("FileExistsError", "save", 0)
          /\ fs = last.pre
  /\ status(fs) = "OK"
       => \A func \in Funcs, body \in Bodies :
            LET found == [fs EXCEPT !.entries[func] = Dir({MetadataFile})]
            IN save(found, func, FALSE, body)
                 = Ret(found, Exc("FileExistsError", "save", 0))

C31_Witness ==
  /\ last.op = "save" /\ status(last.pre) = "OK"
  /\ last.existed /\ ~last.overwrite
  /\ last.body.raises
  /\ last.exc.kind = "FileExistsError"
  /\ File("k1", ".pkl") \in fs.entries[last.unit].files
  /\ fs.entries[TmpDataset] = Absent

\* C32: Store.save never exposes a partially written dataset. After a save
\* that returned, the unit's directory holds the metadata and every output and
\* no temporary directory is left in the root; after a save that raised, in
\* the unit's function or in the writing of an output or earlier, the unit's
\* directory is what it was before the call: absent, or the previous version.
C32_SaveAllOrNothing ==
  (last.op = "save" /\ status(last.pre) = "OK")
    => IF last.exc = None
       THEN /\ fs.entries[last.unit] =
                 Dir({MetadataFile} \cup
                     {FileName(last.body.items[i].key, ".pkl") :
                        i \in DOMAIN last.body.items})
            /\ fs.entries[TmpDataset] = Absent
       ELSE fs.entries[last.unit] = last.pre.entries[last.unit]

C32_Witness ==
  /\ last.op = "save" /\ status(last.pre) = "OK"
  /\ last.existed /\ last.overwrite
  /\ last.exc # None /\ last.exc.site \in {"dataset_function", "save_dataset_file"}
  /\ fs.entries[last.unit] = last.pre.entries[last.unit]
  /\ File("k1", ".pkl") \in fs.entries[last.unit].files
  /\ fs.entries[TmpDataset] = Dir({MetadataFile})

\* C33: failed overwrite. When safe_derive(unit, overwrite=True) was called
\* for a dataset that existed and the unit's logic in the new derivation
\* raised (and did not tamper with the store), the error of the logic reaches
\* the caller and nothing is at the unit's path: the directory of the previous
\* derivation was deleted before the new one started and is not put back.
C33_FailedOverwrite ==
  (/\ last.op = "safe_derive" /\ last.overwrite /\ last.existed
   /\ last.phase = "returned" /\ last.ran
   /\ last.logicExc # None /\ ~tampered)
    => /\ last.exc = last.logicExc
       /\ last.old.kind = "dir"
       /\ fs.entries[last.unit] = Absent
       /\ ~dataset_exists(fs, last.unit)

C33_Witness ==
  /\ last.op = "safe_derive" /\ last.overwrite /\ last.existed
  /\ last.phase = "returned" /\ last.ran /\ ~tampered
  /\ last.logicExc.site = "logic"
  /\ File("x", ".dat") \in last.old.files
  /\ fs.entries[last.unit] = Absent

\* C34: rollback is scoped to the failing unit. When the logic of a unit
\* raised, Lair.derive changes nothing but the unit's own directory: the units
\* the logic derived through the Lair, every other directory and the
\* configuration file are what they were when the logic raised, and the
\* unit's own directory is deleted (unless the logic tampered with the
\* store). When the error came out of an inner derive and the logic let it
\* through (it is no exception the logic raised itself), that same error
\* reaches the caller and the outer directory is deleted too.
C34_RollbackScoped ==
  /\ (DeriveReturned /\ last.logicExc # None)
       => /\ \A k \in Keys \ {last.unit} : fs.entries[k] = last.left.entries[k]
          /\ \A d \in last.derived \ {last.unit} :
               fs.entries[d] = last.left.entries[d]
          /\ fs.config = last.left.config /\ fs.root = last.left.root
          /\ ~tampered => fs.entries[last.unit] = Absent
  /\ (/\ DeriveReturned /\ last.logicExc # None /\ ~tampered
      /\ ~(last.logicExc.site = "logic" /\ last.logicExc.lvl = last.lvl + 1))
       => /\ last.exc = last.logicExc
          /\ fs.entries[last.unit] = Absent

C34_Witness ==
  /\ DeriveReturned /\ ~tampered /\ last.lvl = 0
  /\ last.logicExc = Exc("Exception", "logic", 1)
  /\ File("x", ".dat") \in last.wrote
  /\ fs.entries[last.unit] = Absent
  /\ \E d \in last.derived :
       /\ d # last.unit
       /\ fs.entries[d] = Dir(ReservedNames \cup {File("x", ".dat")})

\* C35: of concurrent derive calls for one unit, a call that fails at a
\* 'missing' assertion or at the creation of the directory has not run the
\* rollback; no step of a call that did not create the directory changes the
\* filesystem, so the directory another call created and derives into is
\* neither deleted nor altered by it; and once a call has returned without
\* error the dataset is present and complete, and stays so.
C35_LoserLeavesDirectory ==
  /\ \A t \in Threads :
       (/\ threads[t].pc = "done" /\ threads[t].exc # None
        /\ threads[t].exc.site \in {"assert_dataset_missing", "mkdir"})
         => ~threads[t].made /\ ~threads[t].removed
  /\ (/\ last.op = "derive" /\ last.phase = "step" /\ last.thread \in Threads
      /\ ~threads[last.thread].made)
       => fs = last.pre
  /\ (\E t \in Threads : threads[t].pc = "done" /\ threads[t].exc = None)
       => fs.entries[RaceUnit] = Dir(ReservedNames \cup {File("x", ".dat")})

C35_Witness ==
  /\ \A t \in Threads : threads[t].pc = "done"
  /\ \E t, o \in Threads :
       /\ threads[t].exc = None /\ threads[t].made
       /\ threads[o].exc = Exc("FileExistsError", "mkdir", 0)
       /\ last.thread = o
  /\ fs.entries[RaceUnit] = Dir(ReservedNames \cup {File("x", ".dat")})

\* C36 as stated: the sweep, called by the unit's logic or by another caller,
\* leaves the directory of a derivation in progress (past the writing of
\* __dataset__.pkl, its logic not yet over) as it was.
C36_SweepSparesInProgress ==
  (/\ last.op = "delete_all_empty_datasets_from_store"
   /\ status(last.pre) = "OK"
   /\ \E t \in Threads :
        /\ threads[t].made
        /\ threads[t].pc \in {"assert_dataset_exists", "logic"})
    => fs.entries[RaceUnit] = last.pre.entries[RaceUnit]

\* C36: a sweep that is no dry run, called by the unit's logic or by another
\* caller while a derivation is in progress, removes the derivation's
\* directory when the logic has written no output yet, and leaves it as it
\* was when the logic has written one; a dry run leaves it as it was.
C36_SweepRemovesUnwritten ==
  (/\ last.op = "delete_all_empty_datasets_from_store"
   /\ status(last.pre) = "OK"
   /\ \E t \in Threads :
        /\ threads[t].made
        /\ threads[t].pc \in {"assert_dataset_exists", "logic"})
    => /\ last.exc = None
       /\ fs.entries[RaceUnit] =
            IF /\ ~last.dry_run
               /\ last.pre.entries[RaceUnit].kind = "dir"
               /\ last.pre.entries[RaceUnit].files \subseteq ReservedNames
            THEN Absent
            ELSE last.pre.entries[RaceUnit]

C36_Witness ==
  /\ last.op = "delete_all_empty_datasets_from_store"
  /\ ~last.dry_run /\ last.thread = 0
  /\ \E t \in Threads : threads[t].made /\ threads[t].pc = "logic"
  /\ last.pre.entries[RaceUnit] = Dir(ReservedNames)
  /\ fs.entries[RaceUnit] = Absent

\* C37: when the unit's logic was aborted by an error that is no Exception
\* and that error came out of Lair.derive, the unit's directory is deleted and
\* dataset_exists(unit) is false.
C37_InterruptRolledBack ==
  (/\ DeriveReturned /\ last.logicExc.kind \in Interruptions
   /\ last.exc = last.logicExc)
    => /\ fs.entries[last.unit] = Absent
       /\ ~dataset_exists(fs, last.unit)

\* C38: every unit the program can construct that differs from the unit
\* constructed in its namespace or in its dataset name has another name and
\* another path in the Lair.
C38_NamesUnique ==
  last.op \in {"Dataset", "setattr", "get_path"}
    => \A cls \in ClassNames, uuid \in ClassUUIDs, namespace \in Namespaces :
         LET o == Dataset(NewObject(cls, uuid), namespace)
         IN (o.namespace # last.obj.namespace
               \/ o.dataset_name # last.obj.dataset_name)
              => /\ o.name # last.obj.name
                 /\ get_path(o).path # get_path(last.obj).path

====
